---------------------------- MODULE Spec2Model ----------------------------
(***************************************************************************)
(* A model of the CEGAR training loop of Lyapunov-RL                       *)
(* (src/src/train_las_lac_cegar.py), of its counter-example extraction     *)
(* (extract_ce_from_model) and of the trajectory simulator                 *)
(* (LyapunovACTrainer.simulate_trajectory).                                *)
(*                                                                         *)
(* Real numbers are modelled on an integer grid.  A state is a tuple of    *)
(* StateDim integers.  Characters of a variable name are one-character     *)
(* strings, a name is a sequence of them.                                  *)
(***************************************************************************)
EXTENDS Integers, Sequences, FiniteSets, TLC

VARIABLES
    \* ---- run_las_lyapunov_ac_cegar_training ----
    pc,                    \* position of the controller in its function body
    i,                     \* the iterator of line 78: iterations completed
    step,                  \* the iterator of line 85: steps completed
    all_counter_examples,  \* line 72
    total_losses,          \* len(total_actor_losses) = len(total_critic_losses)
    ce_model,              \* what check_lyapunov_with_ce returned last
    status,                \* "RUNNING", "VERIFIED" (line 102), "FAILED" (line 115)
    log,                   \* history: the calls the controller made, in order
    \* ---- extract_ce_from_model called on its own ----
    ex_pc, ex_model, ex_result,
    \* ---- LyapunovACTrainer.simulate_trajectory ----
    sim_pc,                \* "loop" at line 177, "returned" after a return
    trainer,               \* self: norm_threshold, integ_threshold, dt
    max_steps,             \* the argument max_steps
    x,                     \* the current state
    traj,                  \* the list traj
    steps,                 \* the counter steps
    integ_acc,             \* the integrated norm
    convergence,           \* the flag returned ("none" before the return)
    \* ---- sample_out_of_region ----
    sm_pc,                 \* "call" before the call, "returned" after it
    sm_in,                 \* the arguments and the random draws of the call
    sm_out                 \* the array returned, a sequence of rows

ctrlVars == <<pc, i, step, all_counter_examples, total_losses, ce_model, status, log>>
exVars == <<ex_pc, ex_model, ex_result>>
simVars == <<sim_pc, trainer, max_steps, x, traj, steps, integ_acc, convergence>>
smVars == <<sm_pc, sm_in, sm_out>>
vars == <<ctrlVars, exVars, simVars, smVars>>

-----------------------------------------------------------------------------
(* Program constants and bounds *)

\* config["state_space"] = np.zeros(2): the state dimension.
StateDim == 2

\* MAX_CEGAR_ITERATIONS (50 in the source), lowered to keep the run finite.
MAX_CEGAR_ITERATIONS == 3

\* TRAINING_STEPS_PER_ITERATION (1000 in the source), lowered likewise.
TRAINING_STEPS_PER_ITERATION == 2

Zeros == [k \in 1..StateDim |-> 0]

-----------------------------------------------------------------------------
(* extract_ce_from_model *)

Digits == <<"0", "1", "2", "3", "4", "5", "6", "7", "8", "9">>

IsDigit(c) == \E d \in 1..10 : Digits[d] = c

DigitVal(c) == (CHOOSE d \in 1..10 : Digits[d] = c) - 1

RECURSIVE DigitsValue(_, _)
\* The value of a non-empty sequence of digits, most significant first.
DigitsValue(s, acc) ==
    IF s = <<>> THEN acc
    ELSE DigitsValue(Tail(s), 10 * acc + DigitVal(Head(s)))

\* int(s) of Python on a sequence of characters from the alphabet
\* {x, y, a, +, -, 0..9}: an optional sign and at least one digit; anything
\* else is a ValueError.
PyInt(s) ==
    LET signed == s # <<>> /\ Head(s) \in {"+", "-"}
        body == IF signed THEN Tail(s) ELSE s
    IN  IF body = <<>> \/ \E k \in 1..Len(body) : ~IsDigit(body[k])
        THEN [ok |-> FALSE, val |-> 0]
        ELSE [ok |-> TRUE,
              val |-> IF signed /\ Head(s) = "-"
                      THEN 0 - DigitsValue(body, 0)
                      ELSE DigitsValue(body, 0)]

\* var_name.startswith('x')
StartsWithX(name) == name # <<>> /\ Head(name) = "x"

\* Mutant: an interval is stored by its lower end, not its midpoint.
StoreValueLowerEnd(val) ==
    CASE val.kind \in {"interval", "num"} -> [exc |-> "none", v |-> val.lo]
      [] val.kind = "text" -> [exc |-> "ValueError", v |-> 0]
      [] OTHER -> [exc |-> "TypeError", v |-> 0]

\* The outcome of `ce[i] = val.mid() if isinstance(val, d.Interval) else val`
\* on a float array: an interval gives its midpoint, a number itself, a text
\* that is no number raises ValueError (float('abc')), and an object that is
\* neither a number nor a string raises TypeError (float({})).
StoreValue(val) ==
    CASE val.kind = "interval" -> [exc |-> "none", v |-> (val.lo + val.hi) \div 2]
      [] val.kind = "num"      -> [exc |-> "none", v |-> val.lo]
      [] val.kind = "text"     -> [exc |-> "ValueError", v |-> 0]
      [] OTHER                 -> [exc |-> "TypeError", v |-> 0]

\* except (ValueError, IndexError): continue
Caught(exc) == exc \in {"ValueError", "IndexError"}

RECURSIVE ExtractLoop(_, _, _)
\* The for loop of lines 15-23 over the items left, with ce as built so far.
ExtractLoop(items, state_dim, ce) ==
    IF items = <<>> THEN [raised |-> "none", ce |-> ce]
    ELSE
      LET it == Head(items)
          rest == Tail(items)
      IN  IF ~StartsWithX(it.var) THEN ExtractLoop(rest, state_dim, ce)
          ELSE
            LET idx == PyInt(Tail(it.var))
            IN  IF ~idx.ok
                THEN (IF Caught("ValueError")
                      THEN ExtractLoop(rest, state_dim, ce)
                      ELSE [raised |-> "ValueError", ce |-> ce])
                ELSE IF ~(0 <= idx.val /\ idx.val < state_dim)
                THEN ExtractLoop(rest, state_dim, ce)
                ELSE
                  LET st == StoreValue(it.val)
                  IN  IF st.exc = "none"
                      THEN ExtractLoop(rest, state_dim,
                                       [ce EXCEPT ![idx.val + 1] = st.v])
                      ELSE IF Caught(st.exc)
                      THEN ExtractLoop(rest, state_dim, ce)
                      ELSE [raised |-> st.exc, ce |-> ce]

\* extract_ce_from_model(model, state_dim): the exception that escapes it
\* ("none" when it returns) and the vector it returns.
extract_ce_from_model(model, state_dim) ==
    IF model = <<>> THEN [raised |-> "none", ce |-> [k \in 1..state_dim |-> 0]]
    ELSE ExtractLoop(model, state_dim, [k \in 1..state_dim |-> 0])


-----------------------------------------------------------------------------
(* The falsifier: agent.trainer.check_lyapunov_with_ce(level, eps) *)

Var(name, val) == [var |-> name, val |-> val]
Num(v) == [kind |-> "num", lo |-> v, hi |-> v]
Interval(lo, hi) == [kind |-> "interval", lo |-> lo, hi |-> hi]
Text == [kind |-> "text", lo |-> 0, hi |-> 0]
Object == [kind |-> "object", lo |-> 0, hi |-> 0]

X0 == <<"x", "0">>
X1 == <<"x", "1">>

\* The assignments the falsifier may return with an invalid verdict: a point,
\* a box of intervals, an assignment that lacks a state variable, and an
\* empty one.  Values are numbers or intervals, as the solver produces them.
FalsifierModels ==
    { <<Var(X0, Num(1)), Var(X1, Num(0))>>,
      <<Var(X0, Interval(2, 4)), Var(X1, Interval(-2, 0))>>,
      <<Var(X1, Num(2))>>,
      <<>> }

\* (is_verified, ce_model)
FalsifierResponses ==
    {[is_verified |-> TRUE, model |-> <<>>]}
      \cup {[is_verified |-> FALSE, model |-> m] : m \in FalsifierModels}

NoResponse == [is_verified |-> FALSE, model |-> <<>>]

-----------------------------------------------------------------------------
(* run_las_lyapunov_ac_cegar_training *)

Event(e, a) == [ev |-> e, arg |-> a]

\* Mutant: one Learner step too many.
LearnerLoopContinuesOffByOne(s) == s <= TRAINING_STEPS_PER_ITERATION

\* for step in range(TRAINING_STEPS_PER_ITERATION): is there another step?
LearnerLoopContinues(s) == s < TRAINING_STEPS_PER_ITERATION

\* Mutant: the budget test off by one.
CegarLoopContinuesOffByOne(n) == n <= MAX_CEGAR_ITERATIONS

\* for i in range(MAX_CEGAR_ITERATIONS): is there another iteration?
CegarLoopContinues(n) == n < MAX_CEGAR_ITERATIONS

\* Where control is once the learner loop variable is s.
LearnerLoopHead(s) == IF LearnerLoopContinues(s) THEN "learner" ELSE "falsifier"

\* Where control is once the outer loop variable is n: the body of the
\* iteration, or the else clause of the for statement.
CegarLoopHead(n) == IF CegarLoopContinues(n) THEN LearnerLoopHead(0) ELSE "exhausted"

\* Mutant: the Learner is never handed the counter-examples.
UpdateArgumentNone(ces) == <<>>

\* The argument of agent.update(counter_examples=all_counter_examples).
UpdateArgument(ces) == ces

\* episode=(i + 1) * TRAINING_STEPS_PER_ITERATION
SaveEpisode(n) == (n + 1) * TRAINING_STEPS_PER_ITERATION

\* The batch of one Learner step: every counter-example it is passed enters
\* the states its loss terms are computed on.
LearnerBatch(passed) == {passed[k] : k \in 1..Len(passed)}

CtrlInit ==
    /\ pc = CegarLoopHead(0)
    /\ i = 0
    /\ step = 0
    /\ all_counter_examples = <<>>
    /\ total_losses = 0
    /\ ce_model = NoResponse
    /\ status = "RUNNING"
    /\ log = <<>>

\* Lines 85-92: one Learner step and the recording of its losses.
LearnerStep ==
    /\ pc = "learner"
    /\ LET passed == UpdateArgument(all_counter_examples)
       IN  log' = Append(log, Event("update",
                     [passed |-> passed, batch |-> LearnerBatch(passed)]))
    /\ total_losses' = total_losses + 1
    /\ step' = step + 1
    /\ pc' = LearnerLoopHead(step + 1)
    /\ UNCHANGED <<i, all_counter_examples, ce_model, status>>

\* Lines 97-99: the falsifier is queried and answers.
FalsifierQuery ==
    /\ pc = "falsifier"
    /\ \E r \in FalsifierResponses :
         /\ ce_model' = r
         /\ log' = Append(log, Event("query", r))
    /\ pc' = "verdict"
    /\ UNCHANGED <<i, step, all_counter_examples, total_losses, status>>

\* Mutant: the break of line 104 is missing.
HandleVerifiedNoBreak ==
    /\ pc = "verdict"
    /\ ce_model.is_verified
    /\ status' = "VERIFIED"
    /\ log' = log \o <<Event("success_report", i + 1),
                       Event("save", SaveEpisode(i))>>
    /\ i' = i + 1
    /\ step' = 0
    /\ pc' = CegarLoopHead(i + 1)
    /\ UNCHANGED <<all_counter_examples, total_losses, ce_model>>

\* Lines 101-104: verified; save and break.
HandleVerified ==
    /\ pc = "verdict"
    /\ ce_model.is_verified
    /\ status' = "VERIFIED"
    /\ log' = log \o <<Event("success_report", i + 1),
                       Event("save", SaveEpisode(i))>>
    /\ pc' = "finish"
    /\ UNCHANGED <<i, step, all_counter_examples, total_losses, ce_model>>

\* Mutant: the new counter-example replaces the set.
AppendCounterExampleReplaces(ces, new_ce) == <<new_ce>>

\* all_counter_examples.append(new_ce)
AppendCounterExample(ces, new_ce) == Append(ces, new_ce)

\* Mutant: no checkpoint after an invalid verdict.
RefineEventsNoSave(new_ce, n) == <<Event("append", new_ce)>>

\* Lines 109-110: what the controller does with an extracted counter-example.
RefineEvents(new_ce, n) == <<Event("append", new_ce), Event("save", SaveEpisode(n))>>

\* Lines 105-112: not verified; extract, append, save, next iteration.  An
\* exception escaping the extraction ends the run.
HandleFalsified ==
    /\ pc = "verdict"
    /\ ~ce_model.is_verified
    /\ LET r == extract_ce_from_model(ce_model.model, StateDim)
       IN  IF r.raised # "none"
           THEN /\ pc' = "crashed"
                /\ log' = Append(log, Event("raise", r.raised))
                /\ UNCHANGED <<i, step, all_counter_examples>>
           ELSE /\ all_counter_examples' =
                      AppendCounterExample(all_counter_examples, r.ce)
                /\ log' = log \o RefineEvents(r.ce, i)
                /\ i' = i + 1
                /\ step' = 0
                /\ pc' = CegarLoopHead(i + 1)
    /\ UNCHANGED <<total_losses, ce_model, status>>

\* Lines 114-115: the else clause of the for loop.
ReportFailure ==
    /\ pc = "exhausted"
    /\ status' = "FAILED"
    /\ log' = Append(log, Event("fail_report", i))
    /\ pc' = "finish"
    /\ UNCHANGED <<i, step, all_counter_examples, total_losses, ce_model>>

\* Mutant: the run ends without handing the losses to the tracker.
FinishWithoutMetrics ==
    /\ pc = "finish"
    /\ pc' = "done"
    /\ UNCHANGED <<i, step, all_counter_examples, total_losses, ce_model, status, log>>

\* Lines 117-120: the loss history goes to the metrics tracker.
Finish ==
    /\ pc = "finish"
    /\ log' = Append(log, Event("metrics", total_losses))
    /\ pc' = "done"
    /\ UNCHANGED <<i, step, all_counter_examples, total_losses, ce_model, status>>

ExIdle ==
    /\ ex_pc = "unused"
    /\ ex_model = <<>>
    /\ ex_result = [raised |-> "none", ce |-> Zeros]

SimIdle ==
    /\ sim_pc = "unused"
    /\ trainer = [norm_threshold |-> 0, integ_threshold |-> 0, dt |-> 0]
    /\ max_steps = 0
    /\ x = Zeros
    /\ traj = <<>>
    /\ steps = 0
    /\ integ_acc = 0
    /\ convergence = "none"

SampleIdle ==
    /\ sm_pc = "unused"
    /\ sm_in = <<>>
    /\ sm_out = <<>>

Init == CtrlInit /\ ExIdle /\ SimIdle /\ SampleIdle

Next ==
    \/ LearnerStep /\ UNCHANGED <<exVars, simVars, smVars>>
    \/ FalsifierQuery /\ UNCHANGED <<exVars, simVars, smVars>>
    \/ HandleVerified /\ UNCHANGED <<exVars, simVars, smVars>>
    \/ HandleFalsified /\ UNCHANGED <<exVars, simVars, smVars>>
    \/ ReportFailure /\ UNCHANGED <<exVars, simVars, smVars>>
    \/ Finish /\ UNCHANGED <<exVars, simVars, smVars>>

Spec == Init /\ [][Next]_vars

\* The calls the controller makes return: the loop is sequential code.
FairSpec == Spec /\ WF_vars(Next)

-----------------------------------------------------------------------------
(* extract_ce_from_model on any assignment *)

\* The longest assignment tried.
MaxModelItems == 2

\* Names: state variables in and out of range, a name with no index, with a
\* letter for index, with a negative index, with a leading zero, a name that
\* does not start with x, and the empty name.
ExNames ==
    { X0, X1, <<"x", "2">>, <<"x">>, <<"x", "a">>, <<"x", "-", "1">>,
      <<"x", "0", "1">>, <<"y", "0">>, <<>> }

ExValues == {Num(1), Num(-2), Interval(2, 4), Text, Object}

ExItems == {Var(n, v) : n \in ExNames, v \in ExValues}

RECURSIVE SeqsUpTo(_, _)
\* The sequences over S of length at most n.
SeqsUpTo(S, n) ==
    IF n = 0 THEN {<<>>}
    ELSE LET shorter == SeqsUpTo(S, n - 1)
         IN  shorter \cup {Append(t, e) : t \in shorter, e \in S}

ExInit ==
    /\ ex_pc = "call"
    /\ ex_model \in SeqsUpTo(ExItems, MaxModelItems)
    /\ ex_result = [raised |-> "none", ce |-> Zeros]

\* One call of extract_ce_from_model(model, state_dim).
ExtractCall ==
    /\ ex_pc = "call"
    /\ ex_result' = extract_ce_from_model(ex_model, StateDim)
    /\ ex_pc' = IF ex_result'.raised = "none" THEN "returned" ELSE "raised"
    /\ UNCHANGED ex_model

InitExtract == CtrlInit /\ ExInit /\ SimIdle /\ SampleIdle

NextExtract == ExtractCall /\ UNCHANGED <<ctrlVars, simVars, smVars>>

SpecExtract == InitExtract /\ [][NextExtract]_vars

-----------------------------------------------------------------------------
(* LyapunovACTrainer.simulate_trajectory *)

\* Lengths are in units of 5e-4, so that the 1e-3 of line 188 is 2.
PlateauEps == 2

\* The largest max_steps tried.
MaxStepsBound == 12

RECURSIVE ISqrtFrom(_, _)
ISqrtFrom(n, r) == IF (r + 1) * (r + 1) > n THEN r ELSE ISqrtFrom(n, r + 1)

\* torch.linalg.vector_norm(v, ord=2), rounded down to the grid.
Norm(v) == ISqrtFrom(v[1] * v[1] + v[2] * v[2], 0)

Minus(a, b) == [k \in 1..StateDim |-> a[k] - b[k]]

Plus(a, b) == [k \in 1..StateDim |-> a[k] + b[k]]

\* t[-n] of Python.
FromEnd(t, n) == t[Len(t) - n + 1]

\* What one RK4 step of the closed loop may do to a state: the policy is a
\* network, so the displacement is any of a few, below and not below the
\* 1e-3 of the plateau test.
Moves == {<<0, 0>>, <<1, 0>>, <<2, 0>>}

rk4_step(from) == {Plus(from, d) : d \in Moves}

\* The starting states: given by the caller, or sampled from R1.
StartStates == {<<0, 0>>, <<1, 1>>, <<-3, 0>>, <<2, 0>>, <<3, 4>>}

NormThresholds == {2, 4}
IntegThresholds == {6, 40}
TimeSteps == {1, 2}
MaxStepsChoices == {0, 1, 3, MaxStepsBound}

SimInit ==
    /\ sim_pc = "loop"
    /\ trainer \in [norm_threshold : NormThresholds,
                    integ_threshold : IntegThresholds,
                    dt : TimeSteps]
    /\ max_steps \in MaxStepsChoices
    /\ x \in StartStates
    /\ traj = <<x>>
    /\ steps = 0
    /\ integ_acc = 0
    /\ convergence = "none"

\* Mutant: the test of the norm against norm_threshold is lost.
StopsConvergentNoNormTest(norm, t, n, self, limit) ==
    \/ Len(t) > 10 /\ Norm(Minus(FromEnd(t, 1), FromEnd(t, 10))) < PlateauEps
    \/ n >= limit

\* Mutant: the step budget is tested with > instead of >=.
StopsConvergentOffByOne(norm, t, n, self, limit) ==
    \/ norm < self.norm_threshold
    \/ Len(t) > 10 /\ Norm(Minus(FromEnd(t, 1), FromEnd(t, 10))) < PlateauEps
    \/ n > limit

\* Lines 187-189: the condition of the convergent return.
StopsConvergent(norm, t, n, self, limit) ==
    \/ norm < self.norm_threshold
    \/ Len(t) > 10 /\ Norm(Minus(FromEnd(t, 1), FromEnd(t, 10))) < PlateauEps
    \/ n >= limit

\* Line 193: the condition of the divergent return.
StopsDivergent(acc, self) == acc > self.integ_threshold

\* Mutant: the integrated norm is tested before the convergent return.
SimIterationDivergentFirst ==
    /\ sim_pc = "loop"
    /\ steps' = steps + 1
    /\ LET norm == Norm(x)
       IN  /\ integ_acc' = integ_acc + norm * trainer.dt
           /\ IF StopsDivergent(integ_acc', trainer)
              THEN /\ convergence' = FALSE
                   /\ sim_pc' = "returned"
                   /\ UNCHANGED <<x, traj>>
              ELSE IF StopsConvergent(norm, traj, steps', trainer, max_steps)
              THEN /\ convergence' = TRUE
                   /\ sim_pc' = "returned"
                   /\ UNCHANGED <<x, traj>>
              ELSE /\ x' \in rk4_step(FromEnd(traj, 1))
                   /\ traj' = Append(traj, x')
                   /\ UNCHANGED <<sim_pc, convergence>>
    /\ UNCHANGED <<trainer, max_steps>>

\* Lines 178-206: one iteration of the while loop.
SimIteration ==
    /\ sim_pc = "loop"
    /\ steps' = steps + 1
    /\ LET norm == Norm(x)
       IN  /\ integ_acc' = integ_acc + norm * trainer.dt
           /\ IF StopsConvergent(norm, traj, steps', trainer, max_steps)
              THEN /\ convergence' = TRUE
                   /\ sim_pc' = "returned"
                   /\ UNCHANGED <<x, traj>>
              ELSE IF StopsDivergent(integ_acc', trainer)
              THEN /\ convergence' = FALSE
                   /\ sim_pc' = "returned"
                   /\ UNCHANGED <<x, traj>>
              ELSE /\ x' \in rk4_step(FromEnd(traj, 1))
                   /\ traj' = Append(traj, x')
                   /\ UNCHANGED <<sim_pc, convergence>>
    /\ UNCHANGED <<trainer, max_steps>>

InitSim == CtrlInit /\ ExIdle /\ SimInit /\ SampleIdle

NextSim == SimIteration /\ UNCHANGED <<ctrlVars, exVars, smVars>>

SpecSim == InitSim /\ [][NextSim]_vars

-----------------------------------------------------------------------------
(* sample_out_of_region (src/src/util/sampling.py) *)

\* Floats are modelled as fractions n/d with d >= 0; 0/0 is nan, n/0 with
\* n # 0 an infinity.
Rat(n, d) == [n |-> n, d |-> d]

IsNaN(a) == a.n = 0 /\ a.d = 0

RatAbs(a) == Rat(IF a.n < 0 THEN 0 - a.n ELSE a.n, a.d)

\* np.sign: -1, 0 or 1, and nan for nan.
RatSign(a) ==
    IF IsNaN(a) THEN a
    ELSE Rat(IF a.n < 0 THEN -1 ELSE IF a.n > 0 THEN 1 ELSE 0, 1)

RatMul(a, b) == Rat(a.n * b.n, a.d * b.d)

RatAdd(a, b) == Rat(a.n * b.d + b.n * a.d, a.d * b.d)

\* a / b in floating point: 0/0 is nan, no exception is raised.
RatDiv(a, b) ==
    IF b.n < 0 THEN Rat((0 - a.n) * b.d, a.d * (0 - b.n))
    ELSE Rat(a.n * b.d, a.d * b.n)

\* a >= b; false when either is nan.
RatGeq(a, b) == ~IsNaN(a) /\ ~IsNaN(b) /\ a.n * b.d >= b.n * a.d

\* np.max over the values of row r: nan if any is nan.
RowMax(r) ==
    IF \E k \in DOMAIN r : IsNaN(r[k]) THEN Rat(0, 0)
    ELSE r[CHOOSE k \in DOMAIN r : \A j \in DOMAIN r : RatGeq(r[k], r[j])]

\* Line 42: max_i |x_i| / (ub_i * scale) of one row.
MaxRatio(row, ub, scale) ==
    RowMax([k \in DOMAIN row |-> RatDiv(RatAbs(row[k]), Rat(ub[k] * scale, 1))])

\* Line 44: x = x / ratios, for one row.
Rescale(row, ratio) == [k \in DOMAIN row |-> RatDiv(row[k], ratio)]

\* Line 47: x = x + np.sign(x) * noise, for one row.
PushOut(row, noise) ==
    [k \in DOMAIN row |-> RatAdd(row[k], RatMul(RatSign(row[k]), noise[k]))]

\* Lines 40-48 for one row, given what the two random draws returned.
SampleRow(base, noise, ub, scale) ==
    PushOut(Rescale(base, MaxRatio(base, ub, scale)), noise)

\* The base draws are the multiples of 1/BaseGrid in [-1, 1].
BaseGrid == 2

BaseDraws == {Rat(b, BaseGrid) : b \in (0 - BaseGrid)..BaseGrid}

\* Draws of np.random.uniform(0, 0.5).
NoiseDraws == {Rat(0, 1), Rat(1, 4)}

\* ub: the bounds of R1 of the configuration, and another pair.
UpperBounds == {<<2, 4>>, <<1, 3>>}

Scales == {1, 2}

SampleCounts == {1, 2}

RowsOf(S) == [1..StateDim -> S]

SampleInit ==
    /\ sm_pc = "call"
    /\ \E n \in SampleCounts :
         sm_in \in [num_samples : {n},
                    ub : UpperBounds,
                    scale : Scales,
                    base : [1..n -> RowsOf(BaseDraws)],
                    noise : [1..n -> RowsOf(NoiseDraws)]]
    /\ sm_out = <<>>

\* One call of sample_out_of_region(num_samples, lb, ub, scale).
SampleCall ==
    /\ sm_pc = "call"
    /\ sm_out' = [r \in 1..sm_in.num_samples |->
                    SampleRow(sm_in.base[r], sm_in.noise[r], sm_in.ub, sm_in.scale)]
    /\ sm_pc' = "returned"
    /\ UNCHANGED sm_in

InitSample == CtrlInit /\ ExIdle /\ SimIdle /\ SampleInit

NextSample == SampleCall /\ UNCHANGED <<ctrlVars, exVars, simVars>>

SpecSample == InitSample /\ [][NextSample]_vars

-----------------------------------------------------------------------------
(* Reading the history *)

Indices(e) == {k \in 1..Len(log) : log[k].ev = e}

Count(e) == Cardinality(Indices(e))

ValidQueries == {k \in Indices("query") : log[k].arg.is_verified}

InvalidQueries == {k \in Indices("query") : ~log[k].arg.is_verified}

\* The number of events e before position n of the history.
Before(e, n) == Cardinality({k \in Indices(e) : k < n})

SetMin(S) == CHOOSE m \in S : \A n \in S : m <= n

SetMax(S) == CHOOSE m \in S : \A n \in S : n <= m

IsPrefix(s, t) == Len(s) <= Len(t) /\ \A k \in 1..Len(s) : s[k] = t[k]

\* Events are compared by kind first: their arguments differ in type.
SameEvent(a, b) == a.ev = b.ev /\ a.arg = b.arg

EventsPrefix(s, t) == Len(s) <= Len(t) /\ \A k \in 1..Len(s) : SameEvent(s[k], t[k])

\* The counter-examples appended before position n of the history, in order.
RECURSIVE AppendedBefore(_)
AppendedBefore(n) ==
    IF n <= 1 THEN <<>>
    ELSE IF log[n - 1].ev = "append"
         THEN Append(AppendedBefore(n - 1), log[n - 1].arg)
         ELSE AppendedBefore(n - 1)

-----------------------------------------------------------------------------
(* C1 *)

\* Safety half of C1: the counters stay within the budget, a finished run is
\* VERIFIED or FAILED, VERIFIED exactly when some query within the budget
\* was answered valid, FAILED exactly when all MAX_CEGAR_ITERATIONS queries
\* were answered invalid; a verdict once reached is kept.
C1_Bounded ==
    /\ i <= MAX_CEGAR_ITERATIONS
    /\ Count("query") <= MAX_CEGAR_ITERATIONS
    /\ status \in {"RUNNING", "VERIFIED", "FAILED"}
    /\ pc = "done" =>
         /\ status \in {"VERIFIED", "FAILED"}
         /\ status = "VERIFIED" <=> ValidQueries # {}
         /\ status = "FAILED" <=>
              /\ ValidQueries = {}
              /\ Cardinality(InvalidQueries) = MAX_CEGAR_ITERATIONS
    /\ status = "FAILED" =>
         /\ ValidQueries = {}
         /\ Cardinality(InvalidQueries) = MAX_CEGAR_ITERATIONS
    /\ ~ENABLED Next => pc = "done"

\* C1: for every sequence of falsifier verdicts the controller run
\* terminates, in exactly one of the terminal states VERIFIED (some query
\* k <= MAX_CEGAR_ITERATIONS answered valid) and FAILED (all
\* MAX_CEGAR_ITERATIONS queries answered invalid); the iteration counter and
\* the number of queries never exceed MAX_CEGAR_ITERATIONS, and FAILED is
\* reported if and only if the budget was exhausted without a valid verdict.
C1_TerminatesVerifiedOrFailed ==
    /\ <>[](pc = "done" /\ status \in {"VERIFIED", "FAILED"})
    /\ []C1_Bounded
    /\ [][status # "RUNNING" => status' = status]_vars

C1_Witness ==
    /\ pc = "done"
    /\ status = "FAILED"
    /\ Count("query") = MAX_CEGAR_ITERATIONS

-----------------------------------------------------------------------------
(* C2 *)

\* C2: once the falsifier has answered valid, the controller reports
\* success and saves the parameters once, and nothing else follows but the
\* final metrics: no append in that iteration, no later Learner step or
\* query, no failure report.  The counter-examples are those of the earlier
\* iterations; a valid first answer ends the run after one TRAINING phase
\* with no counter-example.
C2_ValidTerminatesVerified ==
    ValidQueries # {} =>
      LET q == SetMin(ValidQueries)
          after == SubSeq(log, q + 1, Len(log))
      IN  /\ Cardinality(ValidQueries) = 1
          /\ EventsPrefix(after, <<Event("success_report", i + 1),
                               Event("save", SaveEpisode(i)),
                               Event("metrics", total_losses)>>)
          /\ pc \in {"verdict", "finish", "done"}
          /\ pc # "verdict" => status = "VERIFIED" /\ Count("save") = i + 1
          /\ Count("fail_report") = 0
          /\ Len(all_counter_examples) = Before("query", q)
          /\ Count("append") = Before("query", q)
          /\ Count("update") = (Before("query", q) + 1) * TRAINING_STEPS_PER_ITERATION
          /\ Before("query", q) = 0 =>
               /\ all_counter_examples = <<>>
               /\ Count("update") = TRAINING_STEPS_PER_ITERATION

C2_Witness ==
    /\ pc = "done"
    /\ status = "VERIFIED"
    /\ Count("query") = 1
    /\ all_counter_examples = <<>>

-----------------------------------------------------------------------------
(* C3 *)

\* C3: every invalid verdict, once handled, is followed at once by exactly
\* one append and one checkpoint save, before any Learner step of the next
\* iteration; so appends, saves and handled invalid verdicts agree in number
\* while no verdict is valid, and a run that ends FAILED has appended
\* MAX_CEGAR_ITERATIONS counter-examples and saved MAX_CEGAR_ITERATIONS
\* checkpoints.
C3_InvalidAppendsAndSaves ==
    /\ \A q \in InvalidQueries :
         (q < Len(log) \/ pc # "verdict") =>
           /\ q + 2 <= Len(log)
           /\ log[q + 1].ev = "append"
           /\ log[q + 2].ev = "save"
           /\ log[q + 2].arg = SaveEpisode(Before("query", q))
           /\ Before("append", q + 3) = Before("query", q + 1)
           /\ Before("save", q + 3) = Before("query", q + 1)
    /\ Len(all_counter_examples) = Count("append")
    /\ ValidQueries = {} /\ pc # "verdict" =>
         /\ Count("append") = Cardinality(InvalidQueries)
         /\ Count("save") = Cardinality(InvalidQueries)
    /\ status = "FAILED" =>
         /\ Len(all_counter_examples) = MAX_CEGAR_ITERATIONS
         /\ Count("append") = MAX_CEGAR_ITERATIONS
         /\ Count("save") = MAX_CEGAR_ITERATIONS

C3_Witness ==
    /\ status = "FAILED"
    /\ Count("append") = MAX_CEGAR_ITERATIONS
    /\ Count("save") = MAX_CEGAR_ITERATIONS

-----------------------------------------------------------------------------
(* C4 *)

\* Within one iteration every Learner step is passed the same set.
C4_SameSetInIteration ==
    \A u, v \in Indices("update") :
      Before("query", u) = Before("query", v) =>
        log[u].arg.passed = log[v].arg.passed

\* C4: the counter-example set is append-only: every step keeps the old
\* contents as a prefix of the new, the set changes only when the controller
\* handles an invalid verdict (by one element), never during a TRAINING
\* phase, and all Learner steps of one iteration see the same set.
C4_AppendOnly ==
    /\ [][/\ IsPrefix(all_counter_examples, all_counter_examples')
          /\ all_counter_examples' # all_counter_examples =>
               /\ pc = "verdict"
               /\ ~ce_model.is_verified
               /\ Len(all_counter_examples') = Len(all_counter_examples) + 1
          /\ pc = "learner" => all_counter_examples' = all_counter_examples]_vars
    /\ []C4_SameSetInIteration

C4_Witness ==
    /\ pc = "learner"
    /\ step = 1
    /\ Len(all_counter_examples) = 2
    /\ all_counter_examples[1] # all_counter_examples[2]

-----------------------------------------------------------------------------
(* C5 *)

-----------------------------------------------------------------------------
(* C9 *)

\* C9: every iteration runs exactly TRAINING_STEPS_PER_ITERATION Learner
\* steps, each passed the whole counter-example set accumulated so far, and
\* only then queries the falsifier, once: a query comes after exactly that
\* many steps of its iteration, a step never follows a query directly, and
\* a query is followed only by the handling of its verdict.
C9_StepsThenOneQuery ==
    /\ \A u \in Indices("update") :
         /\ Before("query", u) * TRAINING_STEPS_PER_ITERATION <= Before("update", u)
         /\ Before("update", u) < (Before("query", u) + 1) * TRAINING_STEPS_PER_ITERATION
         /\ log[u].arg.passed = AppendedBefore(u)
         /\ log[u].arg.passed = all_counter_examples
              \/ \E q \in Indices("query") : u < q
         /\ u > 1 => log[u - 1].ev \in {"update", "save"}
    /\ \A q \in Indices("query") :
         /\ Before("update", q) = (Before("query", q) + 1) * TRAINING_STEPS_PER_ITERATION
         /\ q < Len(log) => log[q + 1].ev \in {"append", "success_report"}
    /\ pc = "falsifier" =>
         Count("update") = (Count("query") + 1) * TRAINING_STEPS_PER_ITERATION
    /\ pc = "verdict" => log[Len(log)].ev = "query"

C9_Witness ==
    /\ Count("query") = 2
    /\ Count("update") = 2 * TRAINING_STEPS_PER_ITERATION
    /\ all_counter_examples # <<>>

-----------------------------------------------------------------------------
(* C6 *)

\* The assignments returned with the invalid verdicts before position n.
RECURSIVE FalsifiedBefore(_)
FalsifiedBefore(n) ==
    IF n <= 1 THEN <<>>
    ELSE IF log[n - 1].ev = "query" /\ ~log[n - 1].arg.is_verified
         THEN Append(FalsifiedBefore(n - 1), log[n - 1].arg.model)
         ELSE FalsifiedBefore(n - 1)

\* The items of assignment m that give state coordinate k (1-based).
Assigning(m, k) == {n \in 1..Len(m) : m[n].var = <<"x", Digits[k]>>}

\* The value of a solver value: a number, or the midpoint of an interval.
PointOf(val) == IF val.kind = "interval" THEN (val.lo + val.hi) \div 2 ELSE val.lo

\* Coordinate k of the point assignment m denotes, zero where m is silent.
WitnessCoordinate(m, k) ==
    IF Assigning(m, k) = {} THEN 0 ELSE PointOf(m[SetMax(Assigning(m, k))].val)

\* C6 as stated: every element of the counter-example set comes from a
\* falsifier witness, none from an assignment that is empty or has no state
\* variable.
C6_EveryElementFromWitness ==
    LET ms == FalsifiedBefore(Len(log) + 1)
    IN  \A j \in 1..Len(all_counter_examples) :
          /\ j <= Len(ms)
          /\ \E k \in 1..StateDim : Assigning(ms[j], k) # {}
          /\ \A k \in 1..StateDim :
               all_counter_examples[j][k] = WitnessCoordinate(ms[j], k)

\* C6 amended: the i-th element is the state extracted from the assignment
\* of the i-th invalid verdict, coordinate by coordinate the value the
\* assignment gives (an interval's midpoint) and zero where it gives none;
\* an element is appended for every handled invalid verdict, the all-zero
\* state when the assignment is empty.
C6_ElementsAreExtractedStates ==
    LET ms == FalsifiedBefore(Len(log) + 1)
    IN  /\ Len(all_counter_examples) <= Len(ms)
        /\ Len(ms) <= Len(all_counter_examples) + 1
        /\ pc # "verdict" /\ ValidQueries = {} => Len(ms) = Len(all_counter_examples)
        /\ \A j \in 1..Len(all_counter_examples) :
             /\ \A k \in 1..StateDim :
                  all_counter_examples[j][k] = WitnessCoordinate(ms[j], k)
             /\ ms[j] = <<>> => all_counter_examples[j] = Zeros

C6_Witness ==
    \E j \in 1..Len(all_counter_examples) :
      /\ FalsifiedBefore(Len(log) + 1)[j] = <<>>
      /\ all_counter_examples[j] = Zeros
      /\ \E h \in 1..Len(all_counter_examples) : all_counter_examples[h] = <<3, -1>>

-----------------------------------------------------------------------------
(* C7 *)

\* Is item it a well-formed assignment of state coordinate k, with a number?
GivesCoordinate(it, k) ==
    /\ StartsWithX(it.var)
    /\ PyInt(Tail(it.var)).ok
    /\ PyInt(Tail(it.var)).val = k - 1
    /\ it.val.kind \in {"num", "interval"}

\* C7: the extraction never raises, whatever the assignment: an empty
\* assignment gives the all-zero state, a coordinate that no item gives a
\* number stays zero (names that are no in-range index and non-numeric
\* values are skipped).
C7_ExtractionNeverRaises ==
    ex_pc \notin {"unused", "call"} =>
      /\ ex_pc = "returned"
      /\ ex_result.raised = "none"
      /\ ex_model = <<>> => ex_result.ce = Zeros
      /\ \A k \in 1..StateDim :
           (\A n \in 1..Len(ex_model) : ~GivesCoordinate(ex_model[n], k)) =>
             ex_result.ce[k] = 0

-----------------------------------------------------------------------------
(* C8 *)

\* C8 as stated: when the failure is reported, the last checkpoint has been
\* saved and the final metrics have been recorded.
C8_BookkeepingBeforeReport ==
    \A f \in Indices("fail_report") :
      /\ \E c \in Indices("save") : c < f
      /\ \E m \in Indices("metrics") : m < f

\* C8 amended: in a run that ends FAILED, every checkpoint save, the last of
\* them tagged with the last episode, comes before the failure report, and
\* the final metrics, with the losses of all Learner steps, are recorded
\* once, after the report, before the run is over.
C8_ReportBetweenSaveAndMetrics ==
    /\ \A f \in Indices("fail_report") :
         /\ status = "FAILED"
         /\ f > 1
         /\ SameEvent(log[f - 1], Event("save", SaveEpisode(MAX_CEGAR_ITERATIONS - 1)))
         /\ \A c \in Indices("save") : c < f
         /\ \A m \in Indices("metrics") : m = f + 1
    /\ pc = "done" /\ status = "FAILED" =>
         /\ Count("fail_report") = 1
         /\ SameEvent(log[Len(log)],
                      Event("metrics", MAX_CEGAR_ITERATIONS * TRAINING_STEPS_PER_ITERATION))
         /\ log[Len(log) - 1].ev = "fail_report"

C8_Witness ==
    /\ pc = "done"
    /\ status = "FAILED"
    /\ Count("metrics") = 1
    /\ Count("save") = MAX_CEGAR_ITERATIONS

-----------------------------------------------------------------------------
(* C10 *)

\* C10: a trajectory started at a state whose norm is below norm_threshold
\* never takes an integration step and returns at the first check:
\* convergent, the trajectory only the initial state, the integrated cost
\* ||x0|| * dt (0 from the origin).
C10_StartInsideThreshold ==
    (sim_pc # "unused" /\ Norm(traj[1]) < trainer.norm_threshold) =>
      /\ Len(traj) = 1
      /\ steps <= 1
      /\ sim_pc = "returned" <=> steps = 1
      /\ sim_pc = "returned" =>
           /\ convergence = TRUE
           /\ integ_acc = Norm(traj[1]) * trainer.dt
           /\ traj[1] = Zeros => integ_acc = 0

C10_Witness ==
    /\ sim_pc = "returned"
    /\ traj = <<(<<1, 1>>)>>
    /\ Norm(traj[1]) < trainer.norm_threshold
    /\ max_steps = MaxStepsBound
    /\ steps = 1
    /\ integ_acc = trainer.dt

-----------------------------------------------------------------------------
(* C11 *)

\* Is row r outside the region scaled by scale: max_i |r_i| / (ub_i * scale) >= 1?
OutsideScaled(r, ub, scale) == RatGeq(MaxRatio(r, ub, scale), Rat(1, 1))

\* C11: sample_out_of_region returns num_samples samples, and every one of
\* them has max_i |x_i| / (ub_i * scale) >= 1, whatever the base draw in
\* [-1, 1]^d and the non-negative noise.
C11_EverySampleOutside ==
    sm_pc = "returned" =>
      /\ Len(sm_out) = sm_in.num_samples
      /\ \A r \in 1..Len(sm_out) : OutsideScaled(sm_out[r], sm_in.ub, sm_in.scale)

-----------------------------------------------------------------------------
(* C12 *)

\* The four conditions of the termination test, on the values it reads.
NormBelow(cur, self) == Norm(cur) < self.norm_threshold

Plateau(t) == Len(t) > 10 /\ Norm(Minus(t[Len(t)], t[Len(t) - 9])) < PlateauEps

BudgetSpent(n, limit) == n >= limit

CostAbove(acc, self) == acc > self.integ_threshold

\* The state a call has returned in holds the values of its last test.
C12_VerdictAtReturn ==
    sim_pc = "returned" =>
      LET first == NormBelow(x, trainer) \/ Plateau(traj) \/ BudgetSpent(steps, max_steps)
      IN  /\ convergence \in BOOLEAN
          /\ first => convergence = TRUE
          /\ convergence = FALSE <=> (CostAbove(integ_acc, trainer) /\ ~first)
          /\ convergence = TRUE <=> first

\* C12: at every step the conditions are taken in the order norm, plateau,
\* step budget, integrated cost: the verdict is divergent only when the cost
\* exceeds integ_threshold and none of the first three holds at that step,
\* it is convergent whenever one of the first three holds, also with the
\* cost above integ_threshold, and the loop goes on only when none holds.
C12_TerminationPriority ==
    /\ []C12_VerdictAtReturn
    /\ [][(sim_pc = "loop" /\ sim_pc' = "loop") =>
            /\ ~NormBelow(x, trainer)
            /\ ~Plateau(traj)
            /\ ~BudgetSpent(steps', max_steps)
            /\ ~CostAbove(integ_acc', trainer)]_vars

C12_Witness ==
    /\ sim_pc = "returned"
    /\ convergence = TRUE
    /\ CostAbove(integ_acc, trainer)
    /\ steps > 1

-----------------------------------------------------------------------------
(* C13 *)

\* The plateau of the claim: more than 10 states, and the last state within
\* 1e-3 of the state 10 integration steps before it.
PlateauTenStepsBack(t) ==
    Len(t) > 10 /\ Norm(Minus(t[Len(t)], t[Len(t) - 10])) < PlateauEps

\* C13: the plateau termination fires exactly when the history holds more
\* than 10 states and the current state is within 1e-3 of the state 10
\* integration steps earlier: a convergent return that neither the norm nor
\* the step budget explains has such a plateau, and no test that found such
\* a plateau let the loop go on or returned divergent.
C13_PlateauTenSteps ==
    /\ (/\ sim_pc = "returned"
        /\ convergence = TRUE
        /\ ~NormBelow(x, trainer)
        /\ ~BudgetSpent(steps, max_steps)) => PlateauTenStepsBack(traj)
    /\ (sim_pc = "returned" /\ convergence = FALSE) => ~PlateauTenStepsBack(traj)
    /\ (sim_pc = "loop" /\ Len(traj) >= 2) =>
         ~PlateauTenStepsBack(SubSeq(traj, 1, Len(traj) - 1))

-----------------------------------------------------------------------------
(* C14 *)

\* max(1, max_steps)
IterationLimit == IF max_steps > 1 THEN max_steps ELSE 1

C14_Counters ==
    sim_pc # "unused" =>
      /\ steps <= IterationLimit
      /\ Len(traj) <= IterationLimit
      /\ sim_pc = "loop" => (Len(traj) = steps + 1 /\ steps < IterationLimit)
      /\ sim_pc = "returned" => Len(traj) = steps
      /\ sim_pc = "loop" => ENABLED NextSim
      /\ integ_acc >= 0

\* C14: simulate_trajectory ends within max(1, max_steps) loop iterations:
\* the step counter grows by one in every iteration and never passes that
\* limit, and an iteration is always possible until the return.  At every
\* termination test the trajectory holds as many states as the step counter
\* says, so the trajectory returned has as many states as iterations ran,
\* at most max(1, max_steps); the integrated cost never decreases.
C14_BoundedIterations ==
    /\ []C14_Counters
    /\ [][/\ steps' = steps + 1
          /\ Len(traj) = steps'
          /\ integ_acc' >= integ_acc]_vars

C14_Witness ==
    /\ sim_pc = "returned"
    /\ max_steps = MaxStepsBound
    /\ steps = max_steps
    /\ Len(traj) = max_steps
    /\ integ_acc > 0

=============================================================================
